---- MODULE Spec2Model ----
(***************************************************************************)
(* Task-completion control layer of the ERC3 agent                         *)
(* (src/erc_agent/store_agent.py, src/erc_agent/main.py).                  *)
(*                                                                         *)
(* The driver (main.py) runs the tasks of a session one after the other:   *)
(* start_task, run_agent, complete_task.  run_agent resets the run state,  *)
(* sets up the API client, runs the agent loop (tool calls), and then the  *)
(* auto-completion / error fallback and log_final_stats.                   *)
(*                                                                         *)
(* Text values (link strings, reasoning, identifiers) are sequences of     *)
(* one-character strings, so that lower(), split(",") and strip() are      *)
(* computed the way the code computes them.                                *)
(***************************************************************************)
EXTENDS Integers, Sequences, FiniteSets, TLC

VARIABLES
    pc,                     \* position of the driver / of run_agent
    taskIdx,                \* 1-based index of the task the driver is at
    exc,                    \* exception run_agent is propagating: "none", "setup", "loop"
    steps,                  \* tool calls made by the agent loop in this task
    _response_provided,     \* store_agent.py:116
    _verified,              \* store_agent.py:117
    _last_verify_payload,   \* store_agent.py:118
    nDispatched,            \* external API: terminal requests dispatched for this task
    accepted,               \* external API: terminal requests accepted for this task
    lastCall,               \* what the last tool invocation of the loop did
    call_count,             \* store_agent.py:1288: ERC3LoggingCallback.call_count
    start_time,             \* store_agent.py:1285: ERC3LoggingCallback.start_time
    llmLog,                 \* external API: usage records passed to log_llm for this task
    only,                   \* main.py:12: args.only, PyNone or <<N>>
    fail_fast,              \* main.py:14: args.fail_fast
    evals,                  \* platform: the evaluation complete_task returns for each task
    tasks_to_run,           \* main.py:44-46
    failed_tests,           \* main.py:50
    started,                \* external API: the tasks start_task was called for
    completed,              \* external API: the tasks complete_task was called for
    submitted,              \* external API: number of submit_session calls
    calls                   \* the invocations of _run executed concurrently for one
                            \* model message, each with its position in _run

runState == <<_response_provided, _verified, _last_verify_payload>>
external == <<nDispatched, accepted>>
usage == <<call_count, start_time, llmLog>>
session == <<only, fail_fast, evals, tasks_to_run, failed_tests, started,
             completed, submitted>>
vars == <<pc, taskIdx, exc, steps, _response_provided, _verified,
          _last_verify_payload, nDispatched, accepted, lastCall,
          call_count, start_time, llmLog,
          only, fail_fast, evals, tasks_to_run, failed_tests, started,
          completed, submitted, calls>>

----------------------------------------------------------------------------
(* Bounds *)

\* tool calls the agent loop may make in one task (the step budget)
MaxSteps == 2
\* tasks of the session
NumTasks == 2
\* model invocations the callback may see start in one task
MaxLlmCalls == 2

----------------------------------------------------------------------------
(* Program constants *)

\* store_agent.py:141
MaxPage == 5

Terminal == "Req_ProvideAgentResponse"

\* the ERC3 tools the agent is given (a listing tool, a modifying tool and
\* the terminal tool stand for the list of store_agent.py:1130-1270)
ERC3Tools == {Terminal, "Req_SearchEmployees", "Req_UpdateWiki"}

OutcomeKind == {"ok_answer", "denied_security", "none_unsupported",
                "none_clarification_needed", "ok_not_found", "error_internal"}

\* mutant: denied_security is missing from the set
safe_outcomes_no_links_Short == {"error_internal", "none_unsupported"}

\* store_agent.py:1433
safe_outcomes_no_links == {"error_internal", "denied_security", "none_unsupported"}

\* store_agent.py:1431
AutoMessage == <<"Auto-submitted based on verification step.">>

\* store_agent.py:1470
ErrorMessage == <<"An internal error occurred while processing your request. Please try again later.">>

\* the empty dict {} and the string 'none'
EmptyDict == <<>>
NONE == <<"n", "o", "n", "e">>

----------------------------------------------------------------------------
(* Text: str.lower, str.split(","), str.strip on character sequences *)

LowerChar(c) ==
    CASE c = "N" -> "n"
      [] c = "O" -> "o"
      [] c = "E" -> "e"
      [] c = "A" -> "a"
      [] OTHER -> c

Lower(s) == [i \in DOMAIN s |-> LowerChar(s[i])]

IsSpace(c) == c = " "

RECURSIVE LStrip(_)
LStrip(s) == IF s # <<>> /\ IsSpace(Head(s)) THEN LStrip(Tail(s)) ELSE s

RECURSIVE RStrip(_)
RStrip(s) ==
    IF s # <<>> /\ IsSpace(s[Len(s)]) THEN RStrip(SubSeq(s, 1, Len(s) - 1)) ELSE s

Strip(s) == RStrip(LStrip(s))

\* s.split(","): the pieces between the commas, empty pieces included
RECURSIVE SplitFrom(_, _, _)
SplitFrom(s, i, cur) ==
    IF i > Len(s) THEN <<cur>>
    ELSE IF s[i] = "," THEN <<cur>> \o SplitFrom(s, i + 1, <<>>)
    ELSE SplitFrom(s, i + 1, Append(cur, s[i]))

Split(s) == SplitFrom(s, 1, <<>>)

----------------------------------------------------------------------------
(* Inputs the agent and the environment may choose *)

\* outcome strings the agent may pass: VerifyInput.outcome is a plain str
\* (store_agent.py:105), so the empty string and a string outside the
\* enumeration are possible as well
AgentOutcomes == OutcomeKind \cup {"", "bogus"}

EmployeeLinkStrings == {NONE, <<"a">>, <<"N", "o", "n", "e">>}
ProjectLinkStrings == {NONE, <<"p">>}
\* the agent of the main specification names no customer; calls that do
\* are in WideCustomerLinkStrings and WideVerifyArgs
CustomerLinkStrings == {NONE}
Reasonings == {<<>>, <<"r">>}

\* links the agent may pass to the terminal tool
AgentLinks == {<<>>, <<[kind |-> "employee", id |-> <<"a">>]>>}

\* values of a 'page' argument: an optional integer, PyNone is Python's None
PyNone == <<>>
Pages == {PyNone, <<5>>, <<6>>}

\* how the external API answers a dispatch: it returns, it rejects the
\* request (ApiException), or the call fails otherwise (Exception)
ApiResults == {"ok", "ApiException", "Exception"}

\* keyword arguments of a tool invocation; "valid" says whether the
\* arguments other than those modelled satisfy the request schema
ArgsFor(name) ==
    IF name = Terminal
    THEN [outcome : AgentOutcomes \ {""}, links : AgentLinks, message : {<<"m">>}]
    ELSE IF name = "Req_SearchEmployees"
    THEN [page : Pages, valid : BOOLEAN] \cup [valid : BOOLEAN]
    ELSE [valid : BOOLEAN]

\* the exceptions a tool invocation may meet: the request class rejects the
\* arguments, the external API rejects the request (an ApiException has a
\* detail besides its message), or the dispatch fails otherwise
NoError == [type |-> "none", detail |-> <<>>, message |-> <<>>]
ValidationError == [type |-> "ValidationError", detail |-> <<>>, message |-> <<"v">>]
ApiError == [type |-> "ApiException", detail |-> <<"d">>, message |-> <<"s">>]
OtherError == [type |-> "Exception", detail |-> <<>>, message |-> <<"t">>]

NoCall == [tool |-> "", result |-> "", dispatched |-> FALSE, sent |-> <<>>,
           error |-> NoError, text |-> <<>>, given |-> <<>>]

\* the invocations of _run a tool node executes at the same time for one
\* model message that carries two tool calls
Threads == {1, 2}

\* an invocation that is not running
IdleCall == [at |-> "idle", kwargs |-> <<>>, ret |-> NoCall]

\* no invocation of _run is under way
NoCalls == [t \in Threads |-> IdleCall]

----------------------------------------------------------------------------
(* ERC3Tool._run, store_agent.py:129-168 *)

\* mutant: the guard is not consulted
GuardIntercepts_Never(name) == FALSE

\* mutant: the terminal tool is refused until verify was called
GuardIntercepts_Unverified(name) == name = Terminal /\ (_response_provided \/ ~_verified)

\* mutant: a closed guard intercepts every tool
GuardIntercepts_AnyTool(name) == _response_provided

\* store_agent.py:134
GuardIntercepts(name) == _response_provided /\ name = Terminal

\* mutant: the page is passed on as given
ClampPage_Off(kwargs) == kwargs

\* store_agent.py:139-142
ClampPage(kwargs) ==
    IF "page" \in DOMAIN kwargs /\ kwargs.page # PyNone
    THEN IF kwargs.page[1] > MaxPage THEN [kwargs EXCEPT !.page = <<MaxPage>>] ELSE kwargs
    ELSE kwargs

\* store_agent.py:149: request_class(**kwargs) validates the arguments; the
\* outcome of the terminal request is the closed enumeration
RequestBuilds(name, kwargs) ==
    IF name = Terminal THEN kwargs.outcome \in OutcomeKind ELSE kwargs.valid

\* mutant: the flag is not set after the terminal dispatch
GuardAfterDispatch_Forget(name, api) == _response_provided

\* mutant: the flag is assigned for every tool, terminal or not
GuardAfterDispatch_Assign(name, api) == name = Terminal /\ api = "ok"

\* mutant: the flag is set for the terminal tool whatever the API answered
GuardAfterDispatch_Early(name, api) ==
    IF name = Terminal THEN TRUE ELSE _response_provided

\* mutant: the flag is set after every successful dispatch
GuardAfterDispatch_AnyTool(name, api) == IF api = "ok" THEN TRUE ELSE _response_provided

\* store_agent.py:155-157: the guard after a dispatch that was answered api
GuardAfterDispatch(name, api) ==
    IF name = Terminal /\ api = "ok" THEN TRUE ELSE _response_provided

\* store_agent.py:152-168: the kind of string _run returns after a dispatch
ResultOf(name, api) ==
    CASE api = "ok" -> IF name = Terminal THEN "TASK_COMPLETED" ELSE "TXT"
      [] api = "ApiException" -> "API_ERROR"
      [] OTHER -> "ERROR"

\* store_agent.py:153, 161, 165: the exception the dispatch raises
DispatchError(api) ==
    CASE api = "ok" -> NoError
      [] api = "ApiException" -> ApiError
      [] OTHER -> OtherError

\* store_agent.py:162
ApiErrorPrefix == <<"A", "P", "I", " ", "E", "r", "r", "o", "r", ":", " ">>
\* store_agent.py:166
ErrorPrefix == <<"E", "r", "r", "o", "r", ":", " ">>

\* mutant: one handler reports every exception
ErrorText_Generic(e) == ErrorPrefix \o e.message

\* store_agent.py:161-168: the string returned for the exception e; the
\* text of a call that did not fail is not modelled
ErrorText(e) ==
    CASE e.type = "none" -> <<>>
      [] e.type = "ApiException" -> ApiErrorPrefix \o e.detail
      [] OTHER -> ErrorPrefix \o e.message

\* mutant: the request is built outside the try block
ToolRunEscapes_Validation(name, kwargs) ==
    ~GuardIntercepts(name) /\ ~RequestBuilds(name, ClampPage(kwargs))

\* store_agent.py:138-168: the try block spans everything after the guard,
\* and its handlers return: no exception leaves _run
ToolRunEscapes(name, kwargs) == FALSE

\* the keyword arguments _run was given, for the tools other than the
\* terminal one
GivenArgs(name, kwargs) == IF name = Terminal THEN <<>> ELSE kwargs

\* the arguments of the request that was built, restricted to 'page'
SentArgs(kwargs) == IF "page" \in DOMAIN kwargs THEN [page |-> kwargs.page] ELSE <<>>

ToolRun(name, kwargs, api) ==
    IF GuardIntercepts(name)
    THEN /\ lastCall' = [tool |-> name, result |-> "ALREADY_COMPLETED",
                         dispatched |-> FALSE, sent |-> <<>>,
                         error |-> NoError, text |-> <<>>,
                         given |-> GivenArgs(name, kwargs)]
         /\ UNCHANGED <<_response_provided, nDispatched, accepted>>
    ELSE LET kw == ClampPage(kwargs) IN
         IF ~RequestBuilds(name, kw)
         THEN /\ lastCall' = [tool |-> name, result |-> "ERROR",
                              dispatched |-> FALSE, sent |-> <<>>,
                              error |-> ValidationError,
                              text |-> ErrorText(ValidationError),
                              given |-> GivenArgs(name, kwargs)]
              /\ UNCHANGED <<_response_provided, nDispatched, accepted>>
         ELSE /\ nDispatched' = IF name = Terminal THEN nDispatched + 1 ELSE nDispatched
              /\ accepted' = IF name = Terminal /\ api = "ok"
                             THEN Append(accepted, [by |-> "agent", outcome |-> kw.outcome,
                                                    message |-> kw.message, links |-> kw.links])
                             ELSE accepted
              /\ _response_provided' = GuardAfterDispatch(name, api)
              /\ lastCall' = [tool |-> name, result |-> ResultOf(name, api),
                              dispatched |-> TRUE, sent |-> SentArgs(kw),
                              error |-> DispatchError(api),
                              text |-> ErrorText(DispatchError(api)),
                              given |-> GivenArgs(name, kwargs)]

----------------------------------------------------------------------------
(* verify_function, store_agent.py:207-278 *)

\* keyword arguments of a verify call (VerifyInput, store_agent.py:102-111)
\* of an agent that modified nothing and read the wiki
VerifyArgs ==
    [outcome : AgentOutcomes, employee_links : EmployeeLinkStrings,
     project_links : ProjectLinkStrings, customer_links : CustomerLinkStrings,
     made_modifications : {FALSE}, permissions_checked : {FALSE},
     wiki_checked : {TRUE}, reasoning : Reasonings]

\* s.lower() != 'none'
NotNone(s) == Lower(s) # NONE

\* sub in s
Contains(s, sub) ==
    \E i \in 1..(Len(s) - Len(sub) + 1) : SubSeq(s, i, i + Len(sub) - 1) = sub

OkAnswerText == <<"o", "k", "_", "a", "n", "s", "w", "e", "r">>

\* store_agent.py:246, 249, 252
AnyLink(kwargs) ==
    \/ NotNone(kwargs.employee_links)
    \/ NotNone(kwargs.project_links)
    \/ NotNone(kwargs.customer_links)

\* mutant: the modification check does not look at permissions_checked
ModificationWarning_Always(kwargs) ==
    IF kwargs.made_modifications THEN <<"WARNING: modifications without permission check">>
    ELSE <<>>

\* store_agent.py:243-244
ModificationWarning(kwargs) ==
    IF kwargs.made_modifications /\ ~kwargs.permissions_checked
    THEN <<"WARNING: modifications without permission check">>
    ELSE <<>>

\* store_agent.py:246-247
DeniedLinksWarning(kwargs) ==
    IF kwargs.outcome = "denied_security" /\ AnyLink(kwargs)
    THEN <<"WARNING: denied_security should have NO links">>
    ELSE <<>>

\* store_agent.py:249-250
UnreliableLinksWarning(kwargs) ==
    IF kwargs.outcome \in {"error_internal", "none_unsupported"} /\ AnyLink(kwargs)
    THEN <<"WARNING: error_internal/none_unsupported must return with NO links">>
    ELSE <<>>

\* store_agent.py:252-253
ClarificationWarning(kwargs) ==
    IF kwargs.outcome = "none_clarification_needed"
       /\ Contains(Lower(kwargs.reasoning), OkAnswerText)
    THEN <<"WARNING: mentioned ok_answer but chose none_clarification_needed">>
    ELSE <<>>

\* store_agent.py:241-253: the list warnings
Warnings(kwargs) ==
    ModificationWarning(kwargs) \o DeniedLinksWarning(kwargs)
        \o UnreliableLinksWarning(kwargs) \o ClarificationWarning(kwargs)

\* store_agent.py:265-278: the returned text, as its lines; the lines that
\* repeat the outcome and the links are left out
VerifyText(kwargs) ==
    LET warnings == Warnings(kwargs)
    IN  IF warnings # <<>>
        THEN <<"WARNINGS:">> \o warnings \o <<"Verification recorded.">>
        ELSE <<"Verification recorded.">>

\* what a verify call with these arguments hands back to the loop
VerifyResult(kwargs) ==
    [tool |-> "verify", result |-> "VERIFIED", dispatched |-> FALSE,
     sent |-> <<>>, error |-> NoError, text |-> VerifyText(kwargs), given |-> kwargs]

\* mutant: the project links are recorded under both link keys
VerifyPayload_Swapped(outcome, employee_links, project_links, customer_links, reasoning) ==
    [outcome |-> outcome, employee_links |-> project_links,
     project_links |-> project_links, customer_links |-> customer_links,
     reasoning |-> reasoning]

\* mutant: the payload of the first verify call of a task is kept
VerifyPayload_KeepFirst(outcome, employee_links, project_links, customer_links, reasoning) ==
    IF _verified
    THEN _last_verify_payload
    ELSE [outcome |-> outcome, employee_links |-> employee_links,
          project_links |-> project_links, customer_links |-> customer_links,
          reasoning |-> reasoning]

\* store_agent.py:257-263
VerifyPayload(outcome, employee_links, project_links, customer_links, reasoning) ==
    [outcome |-> outcome, employee_links |-> employee_links,
     project_links |-> project_links, customer_links |-> customer_links,
     reasoning |-> reasoning]

----------------------------------------------------------------------------
(* The auto-completion of run_agent, store_agent.py:1427-1458 *)

\* store_agent.py:1442-1445
RECURSIVE ItemsToLinks(_, _)
ItemsToLinks(kind, items) ==
    IF items = <<>> THEN <<>>
    ELSE LET item == Strip(Head(items)) IN
         (IF item # <<>> THEN <<[kind |-> kind, id |-> item]>> ELSE <<>>)
             \o ItemsToLinks(kind, Tail(items))

\* mutant: only the lower-case string 'none' stands for no links
LinksOfKind_CaseSensitive(kind, raw) ==
    IF raw # <<>> /\ raw # NONE THEN ItemsToLinks(kind, Split(raw)) ELSE <<>>

\* store_agent.py:1441
LinksOfKind(kind, raw) ==
    IF raw # <<>> /\ Lower(raw) # NONE THEN ItemsToLinks(kind, Split(raw)) ELSE <<>>

\* mutant: the customer links are left out
AutoLinks_NoCustomer(payload, outcome) ==
    IF outcome \notin safe_outcomes_no_links
    THEN LinksOfKind("employee", payload.employee_links)
             \o LinksOfKind("project", payload.project_links)
    ELSE <<>>

\* store_agent.py:1434-1445
AutoLinks(payload, outcome) ==
    IF outcome \notin safe_outcomes_no_links
    THEN LinksOfKind("employee", payload.employee_links)
             \o LinksOfKind("project", payload.project_links)
             \o LinksOfKind("customer", payload.customer_links)
    ELSE <<>>

\* store_agent.py:1431-1451
AutoRequest(payload) ==
    LET message == IF payload.reasoning # <<>> THEN payload.reasoning ELSE AutoMessage
        outcome == IF payload.outcome # "" THEN payload.outcome ELSE "error_internal"
    IN  [by |-> "auto", outcome |-> outcome, message |-> message,
         links |-> AutoLinks(payload, outcome)]

\* mutant: the fallback does not look at the guard
NeedsFallback_Always == TRUE

\* mutant: the fallback never submits
NeedsFallback_Never == FALSE

\* store_agent.py:1428 and 1465
NeedsFallback == ~_response_provided

\* store_agent.py:1430
HasVerifyPayload == _verified /\ _last_verify_payload # EmptyDict

\* mutant: the error path submits the verified payload when there is one
ErrorRequest_FromPayload ==
    IF HasVerifyPayload /\ AutoRequest(_last_verify_payload).outcome \in OutcomeKind
    THEN AutoRequest(_last_verify_payload)
    ELSE [by |-> "error", outcome |-> "error_internal", message |-> ErrorMessage,
          links |-> <<>>]

\* store_agent.py:1468-1473
ErrorRequest ==
    [by |-> "error", outcome |-> "error_internal", message |-> ErrorMessage, links |-> <<>>]

----------------------------------------------------------------------------
(* ERC3LoggingCallback, store_agent.py:1273-1393 *)

\* store_agent.py:1292: the value time.time() gives start_time
Now == <<"now">>

\* The token_usage entry of a response's metadata is a dict ("dict"), a
\* missing key ("missing"), or a key whose value is None ("None": the
\* provider reported no usage).

\* a model response with visible text
TextResponse ==
    [content |-> "text", tool_calls |-> FALSE, additional_kwargs |-> "none",
     token_usage |-> [kind |-> "dict", prompt_tokens |-> 2, completion_tokens |-> 1,
                      prompt_tokens_details |-> <<1>>]]
\* a pure tool call, without text
ToolCallResponse ==
    [content |-> "", tool_calls |-> TRUE, additional_kwargs |-> "tool_calls",
     token_usage |-> [kind |-> "dict", prompt_tokens |-> 1, completion_tokens |-> 1,
                      prompt_tokens_details |-> <<>>]]
\* a legacy function call carried in additional_kwargs only, no usage reported
FunctionCallResponse ==
    [content |-> "", tool_calls |-> FALSE, additional_kwargs |-> "function_call",
     token_usage |-> [kind |-> "missing", prompt_tokens |-> 0, completion_tokens |-> 0,
                      prompt_tokens_details |-> <<>>]]
\* neither text nor tool calls, no usage reported
BlankResponse ==
    [content |-> "", tool_calls |-> FALSE, additional_kwargs |-> "none",
     token_usage |-> [kind |-> "missing", prompt_tokens |-> 0, completion_tokens |-> 0,
                      prompt_tokens_details |-> <<>>]]
\* text, and the metadata's token_usage is None
NoUsageResponse ==
    [content |-> "text", tool_calls |-> FALSE, additional_kwargs |-> "none",
     token_usage |-> [kind |-> "None", prompt_tokens |-> 0, completion_tokens |-> 0,
                      prompt_tokens_details |-> <<>>]]

\* responses on_llm_end may be handed
Responses ==
    {TextResponse, ToolCallResponse, FunctionCallResponse, BlankResponse, NoUsageResponse}

\* mutant: without the placeholder of line 1351
CompletionText_NoPlaceholder(response) ==
    IF response.content # "" THEN response.content
    ELSE IF response.tool_calls THEN "json(msg.tool_calls)"
    ELSE IF response.additional_kwargs = "tool_calls" THEN "json(ak.tool_calls)"
    ELSE IF response.additional_kwargs = "function_call" THEN "json(ak.function_call)"
    ELSE ""

\* store_agent.py:1317-1351: the completion text of the record
CompletionText(response) ==
    IF response.content # "" THEN response.content
    ELSE IF response.tool_calls THEN "json(msg.tool_calls)"
    ELSE IF response.additional_kwargs = "tool_calls" THEN "json(ak.tool_calls)"
    ELSE IF response.additional_kwargs = "function_call" THEN "json(ak.function_call)"
    ELSE "[empty_response]"

\* store_agent.py:1341-1343: usage_data is None when the key is present with
\* the value None, and usage_data.get raises AttributeError
ExtractionRaises(response) == response.token_usage.kind = "None"

\* store_agent.py:1341, 1354: usage_data.get('prompt_tokens', 0)
PromptTokens(response) ==
    IF response.token_usage.kind = "dict" THEN response.token_usage.prompt_tokens ELSE 0

\* store_agent.py:1341, 1355: usage_data.get('completion_tokens', 0)
CompletionTokens(response) ==
    IF response.token_usage.kind = "dict" THEN response.token_usage.completion_tokens ELSE 0

\* store_agent.py:1343-1345
CachedPromptTokens(response) ==
    IF response.token_usage.kind = "dict" /\ response.token_usage.prompt_tokens_details # <<>>
    THEN response.token_usage.prompt_tokens_details[1]
    ELSE 0

\* store_agent.py:1362-1370: the record passed to log_llm; logged says
\* whether log_llm accepted it
UsageRecord(response, logged) ==
    [completion |-> CompletionText(response),
     prompt_tokens |-> PromptTokens(response),
     completion_tokens |-> CompletionTokens(response),
     cached_prompt_tokens |-> CachedPromptTokens(response),
     ok |-> logged]

----------------------------------------------------------------------------
(* The driver, main.py *)

\* main.py:35-36: status.tasks, the tasks of the session by their number
SessionTasks == [i \in 1..NumTasks |-> i]

\* values of --only: not given, or an integer in or around the range
OnlyValues == {PyNone} \cup {<<n>> : n \in 0..(NumTasks + 1)}

\* what complete_task may return for a task: no evaluation, a score
\* greater than 0, or a score of 0
EvalKinds == {"none", "pass", "fail"}

\* a plain run of a session: no flags, every task evaluated with a score
\* greater than 0
PlainRun ==
    /\ only = PyNone
    /\ fail_fast = FALSE
    /\ evals = [i \in 1..NumTasks |-> "pass"]
    /\ tasks_to_run = SessionTasks
    /\ failed_tests = 0
    /\ submitted = 0

\* main.py:40
OnlyOutOfRange == only[1] < 1 \/ only[1] > Len(SessionTasks)

\* main.py:53: start=(args.only if args.only else 1)
LoopStart == IF only # PyNone /\ only[1] # 0 THEN only[1] ELSE 1

\* main.py:53: the position of the for loop in tasks_to_run
LoopPos == taskIdx - LoopStart + 1

\* main.py:53: the loop has a next task
MoreTasks == LoopPos <= Len(tasks_to_run)

\* mutant: --fail-fast is not looked at
Breaks_Never(eval) == FALSE

\* main.py:63-82: the loop is left after this task
Breaks(eval) == eval = "fail" /\ fail_fast

\* mutant: the session is submitted unless --only was given
Submits_IgnoreFailFast == only = PyNone

\* main.py:104-110
Submits ==
    IF only # PyNone THEN FALSE
    ELSE IF fail_fast /\ failed_tests > 0 THEN FALSE
    ELSE TRUE

\* mutant: an exception of run_agent leaves the driver
DriverPropagates_Loop(e) == e = "loop"

\* main.py:58-61: except Exception catches what run_agent raises
DriverPropagates(e) == FALSE

----------------------------------------------------------------------------
(* Actions *)

Init ==
    /\ pc = "driver"
    /\ taskIdx = 1
    /\ exc = "none"
    /\ steps = 0
    /\ _response_provided = FALSE
    /\ _verified = FALSE
    /\ _last_verify_payload = EmptyDict
    /\ nDispatched = 0
    /\ accepted = <<>>
    /\ lastCall = NoCall
    /\ call_count = 0
    /\ start_time = PyNone
    /\ llmLog = <<>>
    /\ PlainRun
    /\ started = <<>>
    /\ completed = <<>>
    /\ calls = NoCalls

\* main.py:38-46: the --only option selects the tasks to run, or the
\* process exits
SelectTasks ==
    /\ pc = "select"
    /\ IF only # PyNone
       THEN IF OnlyOutOfRange
            THEN /\ pc' = "exit"
                 /\ UNCHANGED tasks_to_run
            ELSE /\ pc' = "driver"
                 /\ tasks_to_run' = <<SessionTasks[only[1]]>>
       ELSE /\ pc' = "driver"
            /\ tasks_to_run' = SessionTasks
    /\ taskIdx' = LoopStart
    /\ UNCHANGED <<calls, exc, steps, runState, external, lastCall, usage, only, fail_fast,
                   evals, failed_tests, started, completed, submitted>>

\* main.py:53-57: the driver starts the next task
StartTask ==
    /\ pc = "driver"
    /\ MoreTasks
    /\ started' = Append(started, tasks_to_run[LoopPos])
    /\ pc' = "run_agent"
    /\ exc' = "none"
    /\ steps' = 0
    /\ nDispatched' = 0
    /\ accepted' = <<>>
    /\ lastCall' = NoCall
    /\ llmLog' = <<>>
    /\ UNCHANGED <<calls, taskIdx, runState, call_count, start_time, only, fail_fast, evals,
                   tasks_to_run, failed_tests, completed, submitted>>

\* mutant: only the response flag is reset
ResetRunState_FlagOnly ==
    /\ _response_provided' = FALSE
    /\ UNCHANGED <<_verified, _last_verify_payload>>

\* mutant: the payload of the previous task is kept
ResetRunState_KeepPayload ==
    /\ _response_provided' = FALSE
    /\ _verified' = FALSE
    /\ UNCHANGED _last_verify_payload

\* store_agent.py:285-288
ResetRunState ==
    /\ _response_provided' = FALSE
    /\ _verified' = FALSE
    /\ _last_verify_payload' = EmptyDict

\* store_agent.py:281-288: run_agent is entered and resets the run state
RunAgentEnter ==
    /\ pc = "run_agent"
    /\ ResetRunState
    /\ pc' = "setup"
    /\ UNCHANGED <<taskIdx, session, calls, exc, steps, external, lastCall, usage>>

\* store_agent.py:290-291, 1100-1101, 1396-1406: the set-up before the try
\* block either completes, and the logging callback is constructed
\* (1281-1288, 1396), or raises out of run_agent
SetUp ==
    /\ pc = "setup"
    /\ \E ok \in BOOLEAN :
          IF ok THEN /\ pc' = "loop"
                     /\ exc' = exc
                     /\ call_count' = 0
                     /\ start_time' = PyNone
                ELSE /\ pc' = "raised"
                     /\ exc' = "setup"
                     /\ UNCHANGED <<call_count, start_time>>
    /\ UNCHANGED <<taskIdx, session, calls, steps, runState, external, lastCall, llmLog>>

\* store_agent.py:189-195
AgentThink ==
    /\ pc = "loop"
    /\ steps < MaxSteps
    /\ steps' = steps + 1
    /\ lastCall' = [tool |-> "think", result |-> "RECORDED", dispatched |-> FALSE,
                    sent |-> <<>>, error |-> NoError, text |-> <<>>, given |-> <<>>]
    /\ UNCHANGED <<pc, taskIdx, session, calls, exc, runState, external, usage>>

\* store_agent.py:198-204
AgentPlan ==
    /\ pc = "loop"
    /\ steps < MaxSteps
    /\ steps' = steps + 1
    /\ lastCall' = [tool |-> "plan", result |-> "RECORDED", dispatched |-> FALSE,
                    sent |-> <<>>, error |-> NoError, text |-> <<>>, given |-> <<>>]
    /\ UNCHANGED <<pc, taskIdx, session, calls, exc, runState, external, usage>>

\* store_agent.py:207-278: the agent calls verify with the arguments kwargs
VerifyCall(kwargs) ==
    /\ pc = "loop"
    /\ steps < MaxSteps
    /\ _verified' = TRUE
    /\ _last_verify_payload' =
          VerifyPayload(kwargs.outcome, kwargs.employee_links, kwargs.project_links,
                        kwargs.customer_links, kwargs.reasoning)
    /\ steps' = steps + 1
    /\ lastCall' = VerifyResult(kwargs)
    /\ UNCHANGED <<pc, taskIdx, session, calls, exc, _response_provided, external, usage>>

\* store_agent.py:207-278
AgentVerify ==
    /\ pc = "loop"
    /\ \E kwargs \in VerifyArgs : VerifyCall(kwargs)

\* store_agent.py:129-168: the agent invokes the ERC3 tool name; an
\* exception that left _run would abort agent_executor.invoke (line 1460)
AgentCall(name) ==
    /\ pc = "loop"
    /\ steps < MaxSteps
    /\ \E kwargs \in ArgsFor(name), api \in ApiResults :
          /\ ToolRun(name, kwargs, api)
          /\ IF ToolRunEscapes(name, kwargs)
             THEN pc' = "except" /\ exc' = "loop"
             ELSE UNCHANGED <<pc, exc>>
    /\ steps' = steps + 1
    /\ UNCHANGED <<taskIdx, session, calls, _verified, _last_verify_payload, usage>>

\* the agent invokes one of the ERC3 tools
AgentCallTool ==
    /\ pc = "loop"
    /\ \E name \in ERC3Tools : AgentCall(name)

\* keyword arguments of the terminal calls of one model message
ConcurrentArgs ==
    [outcome : {"ok_answer", "ok_not_found", "bogus"}, links : {<<>>},
     message : {<<"m">>}]

\* the model's message carries two invocations of the terminal tool and the
\* tool node runs _run for both at the same time
ConcurrentBegin ==
    /\ pc = "loop"
    /\ steps < MaxSteps
    /\ calls = NoCalls
    /\ \E k \in [Threads -> ConcurrentArgs] :
          calls' = [t \in Threads |-> [at |-> "check", kwargs |-> k[t], ret |-> NoCall]]
    /\ UNCHANGED <<pc, taskIdx, session, exc, steps, runState, external, lastCall, usage>>

\* store_agent.py:134-135: invocation t reads the guard
CheckGuard(t) ==
    /\ calls[t].at = "check"
    /\ calls' = [calls EXCEPT ![t] =
          IF GuardIntercepts(Terminal)
          THEN [at |-> "done", kwargs |-> @.kwargs,
                ret |-> [tool |-> Terminal, result |-> "ALREADY_COMPLETED",
                         dispatched |-> FALSE, sent |-> <<>>, error |-> NoError,
                         text |-> <<>>, given |-> <<>>]]
          ELSE [@ EXCEPT !.at = "dispatch"]]
    /\ UNCHANGED <<pc, taskIdx, session, exc, steps, runState, external, lastCall, usage>>

\* store_agent.py:137-153, 161-168: invocation t builds its request and
\* dispatches it; a failure ends the invocation with an error string
Dispatch(t) ==
    /\ calls[t].at = "dispatch"
    /\ LET kw == ClampPage(calls[t].kwargs) IN
       IF ~RequestBuilds(Terminal, kw)
       THEN /\ calls' = [calls EXCEPT ![t] =
                  [at |-> "done", kwargs |-> @.kwargs,
                   ret |-> [tool |-> Terminal, result |-> "ERROR", dispatched |-> FALSE,
                            sent |-> <<>>, error |-> ValidationError,
                            text |-> ErrorText(ValidationError), given |-> <<>>]]]
            /\ UNCHANGED <<nDispatched, accepted>>
       ELSE \E api \in ApiResults :
            /\ nDispatched' = nDispatched + 1
            /\ accepted' = IF api = "ok"
                           THEN Append(accepted, [by |-> "agent", outcome |-> kw.outcome,
                                                  message |-> kw.message, links |-> kw.links])
                           ELSE accepted
            /\ calls' = [calls EXCEPT ![t] =
                  [at |-> IF api = "ok" THEN "set" ELSE "done", kwargs |-> @.kwargs,
                   ret |-> [tool |-> Terminal, result |-> ResultOf(Terminal, api),
                            dispatched |-> TRUE, sent |-> SentArgs(kw),
                            error |-> DispatchError(api),
                            text |-> ErrorText(DispatchError(api)), given |-> <<>>]]]
    /\ UNCHANGED <<pc, taskIdx, session, exc, steps, runState, lastCall, usage>>

\* store_agent.py:156-158: after its dispatch has returned, invocation t
\* sets the guard and returns
SetGuard(t) ==
    /\ calls[t].at = "set"
    /\ _response_provided' = GuardAfterDispatch(Terminal, "ok")
    /\ calls' = [calls EXCEPT ![t].at = "done"]
    /\ UNCHANGED <<pc, taskIdx, session, exc, steps, _verified, _last_verify_payload,
                   external, lastCall, usage>>

\* one of the concurrent invocations takes its next step
ConcurrentStep == \E t \in Threads : CheckGuard(t) \/ Dispatch(t) \/ SetGuard(t)

\* both invocations have returned: their results go to the model as the
\* tool messages of this step, the second one last
ConcurrentEnd ==
    /\ pc = "loop"
    /\ \A t \in Threads : calls[t].at = "done"
    /\ steps' = steps + 1
    /\ lastCall' = calls[2].ret
    /\ calls' = NoCalls
    /\ UNCHANGED <<pc, taskIdx, session, exc, runState, external, usage>>

\* store_agent.py:1290-1292: a model invocation starts
LlmStart ==
    /\ pc = "loop"
    /\ call_count < MaxLlmCalls
    /\ start_time' = Now
    /\ UNCHANGED <<pc, taskIdx, session, calls, exc, steps, runState, external, lastCall,
                   call_count, llmLog>>

\* mutant: a failure while logging the record is raised into the agent loop
UsageLogExc_Propagate(failed) == IF failed THEN "logging" ELSE exc

\* store_agent.py:1371-1372: a failure of the extraction or of log_llm is
\* logged as a warning and swallowed
UsageLogExc(failed) == exc

\* store_agent.py:1294-1374: a model invocation ends with a response
LlmEnd ==
    /\ pc = "loop"
    /\ \E response \in Responses, logged \in BOOLEAN :
          IF start_time = PyNone
          THEN UNCHANGED <<exc, usage>>
          ELSE /\ call_count' = call_count + 1
               /\ llmLog' = IF ExtractionRaises(response)
                             THEN llmLog
                             ELSE Append(llmLog, UsageRecord(response, logged))
               /\ exc' = UsageLogExc(ExtractionRaises(response) \/ ~logged)
               /\ start_time' = PyNone
    /\ UNCHANGED <<pc, taskIdx, session, calls, steps, runState, external, lastCall>>

\* store_agent.py:1414-1425: agent_executor.invoke returns
LoopReturn ==
    /\ pc = "loop"
    /\ pc' = "after_loop"
    /\ UNCHANGED <<taskIdx, session, calls, exc, steps, runState, external, lastCall, usage>>

\* store_agent.py:1414-1425, 1460: agent_executor.invoke raises (a model or
\* framework error, or the recursion limit is exceeded)
LoopRaise ==
    /\ pc = "loop"
    /\ pc' = "except"
    /\ exc' = "loop"
    /\ UNCHANGED <<taskIdx, session, calls, steps, runState, external, lastCall, usage>>

\* mutant: an error of the auto-completion leaves run_agent
AutoCompleteExc_Propagate(failed) == IF failed THEN "fallback" ELSE exc

\* store_agent.py:1457-1458: an error while building or dispatching the
\* auto-completion is logged and swallowed
AutoCompleteExc(failed) == exc

\* store_agent.py:1427-1458
AutoComplete ==
    /\ pc = "after_loop"
    /\ \E api \in ApiResults :
          LET attempted == NeedsFallback /\ HasVerifyPayload
              builds == AutoRequest(_last_verify_payload).outcome \in OutcomeKind
          IN  /\ IF attempted /\ builds
                 THEN /\ nDispatched' = nDispatched + 1
                      /\ IF api = "ok"
                         THEN /\ accepted' = Append(accepted, AutoRequest(_last_verify_payload))
                              /\ _response_provided' = TRUE
                         ELSE UNCHANGED <<accepted, _response_provided>>
                 ELSE UNCHANGED <<nDispatched, accepted, _response_provided>>
              /\ exc' = AutoCompleteExc(attempted /\ (~builds \/ api # "ok"))
    /\ pc' = "finally"
    /\ UNCHANGED <<taskIdx, session, calls, steps, _verified, _last_verify_payload, lastCall, usage>>

\* mutant: an error of the error_internal submission replaces the loop's error
ErrorFallbackExc_Propagate(failed) == IF failed THEN "fallback" ELSE exc

\* store_agent.py:1476-1479: an error of the error_internal submission is
\* logged and swallowed, and the bare raise re-raises the loop's error
ErrorFallbackExc(failed) == exc

\* store_agent.py:1460-1479
ErrorFallback ==
    /\ pc = "except"
    /\ \E api \in ApiResults :
          /\ IF NeedsFallback
             THEN /\ nDispatched' = nDispatched + 1
                  /\ accepted' = IF api = "ok" THEN Append(accepted, ErrorRequest)
                                               ELSE accepted
             ELSE UNCHANGED <<nDispatched, accepted>>
          /\ exc' = ErrorFallbackExc(NeedsFallback /\ api # "ok")
    /\ pc' = "finally"
    /\ UNCHANGED <<taskIdx, session, calls, steps, runState, lastCall, usage>>

\* store_agent.py:1382-1390: the synthetic record of a task without model
\* invocations; logged says whether log_llm accepted it
SyntheticRecord(logged) ==
    [completion |-> "[no_llm_calls]", prompt_tokens |-> 0, completion_tokens |-> 0,
     cached_prompt_tokens |-> 0, ok |-> logged]

\* mutant: a failure of the synthetic record's log_llm leaves run_agent
FinalStatsExc_Propagate(failed) == IF failed THEN "logging" ELSE exc

\* store_agent.py:1392-1393: a failure of log_llm is logged and swallowed
FinalStatsExc(failed) == exc

\* mutant: the error_internal submission is made in the finally block,
\* after log_final_stats
LogFinalStats_ThenFallback ==
    /\ pc = "finally"
    /\ \E logged \in BOOLEAN :
          /\ llmLog' = IF call_count = 0 THEN Append(llmLog, SyntheticRecord(logged))
                                         ELSE llmLog
          /\ exc' = exc
    /\ nDispatched' = nDispatched + 1
    /\ pc' = IF exc = "none" THEN "returned" ELSE "raised"
    /\ UNCHANGED <<taskIdx, session, calls, steps, runState, accepted, lastCall, call_count,
                   start_time>>

\* store_agent.py:1480-1482, 1376-1393: the finally block calls
\* log_final_stats, then run_agent returns or re-raises
LogFinalStats ==
    /\ pc = "finally"
    /\ \E logged \in BOOLEAN :
          /\ llmLog' = IF call_count = 0 THEN Append(llmLog, SyntheticRecord(logged))
                                         ELSE llmLog
          /\ exc' = FinalStatsExc(call_count = 0 /\ ~logged)
    /\ pc' = IF exc = "none" THEN "returned" ELSE "raised"
    /\ UNCHANGED <<taskIdx, session, calls, steps, runState, external, lastCall, call_count, start_time>>

\* main.py:58-82: run_agent has returned or raised; the driver completes
\* the task, counts a failed evaluation and goes on to the next task or
\* leaves the loop
CompleteTask ==
    /\ pc \in {"returned", "raised"}
    /\ IF pc = "raised" /\ DriverPropagates(exc)
       THEN /\ pc' = "crashed"
            /\ UNCHANGED <<taskIdx, completed, failed_tests>>
       ELSE LET task == tasks_to_run[LoopPos]
                eval == evals[task]
            IN  /\ completed' = Append(completed, task)
                /\ failed_tests' = IF eval = "fail" THEN failed_tests + 1
                                                   ELSE failed_tests
                /\ IF Breaks(eval)
                   THEN pc' = "after_tasks" /\ taskIdx' = taskIdx
                   ELSE pc' = "driver" /\ taskIdx' = taskIdx + 1
    /\ UNCHANGED <<calls, exc, steps, runState, external, lastCall, usage, only, fail_fast,
                   evals, tasks_to_run, started, submitted>>

\* main.py:84-111: the loop is over; the statistics are printed and the
\* session is submitted or not
SubmitSession ==
    /\ \/ pc = "after_tasks"
       \/ pc = "driver" /\ ~MoreTasks
    /\ submitted' = IF Submits THEN submitted + 1 ELSE submitted
    /\ pc' = "done"
    /\ UNCHANGED <<calls, taskIdx, exc, steps, runState, external, lastCall, usage, only,
                   fail_fast, evals, tasks_to_run, failed_tests, started, completed>>

Next ==
    \/ StartTask
    \/ RunAgentEnter
    \/ SetUp
    \/ AgentThink
    \/ AgentPlan
    \/ AgentVerify
    \/ AgentCallTool
    \/ LoopReturn
    \/ LoopRaise
    \/ AutoComplete
    \/ ErrorFallback
    \/ LogFinalStats
    \/ CompleteTask
    \/ SubmitSession

Spec == Init /\ [][Next]_vars

----------------------------------------------------------------------------
(* The auto-completion on a wide range of verify payloads: the loop has     *)
(* made one verify call (with any strings) and may verify again, then it    *)
(* returns and run_agent auto-completes.                                    *)

WideEmployeeLinkStrings ==
    {NONE, <<"N", "O", "N", "E">>, <<>>, <<"a">>, <<"a", ",", "b">>,
     <<" ", "a", " ", ",", "a">>, <<"a", ",", ",", "b">>, <<",">>}
WideProjectLinkStrings == {NONE, <<"p">>, <<"p", ",", "q">>}
WideCustomerLinkStrings == {NONE, <<"c">>, <<" ", "c">>}

WidePayloads ==
    {VerifyPayload(o, e, p, c, r) :
        o \in AgentOutcomes, e \in WideEmployeeLinkStrings, p \in WideProjectLinkStrings,
        c \in WideCustomerLinkStrings, r \in Reasonings}

InitAuto ==
    /\ pc = "loop"
    /\ taskIdx = 1
    /\ exc = "none"
    /\ steps = 1
    /\ _response_provided = FALSE
    /\ _verified = TRUE
    /\ _last_verify_payload \in WidePayloads
    /\ nDispatched = 0
    /\ accepted = <<>>
    /\ lastCall = VerifyResult(
          [outcome |-> _last_verify_payload.outcome,
           employee_links |-> _last_verify_payload.employee_links,
           project_links |-> _last_verify_payload.project_links,
           customer_links |-> _last_verify_payload.customer_links,
           made_modifications |-> FALSE, permissions_checked |-> FALSE,
           wiki_checked |-> TRUE, reasoning |-> _last_verify_payload.reasoning])
    /\ call_count = 1
    /\ start_time = PyNone
    /\ llmLog = <<UsageRecord(ToolCallResponse, TRUE)>>
    /\ PlainRun
    /\ started = <<1>>
    /\ completed = <<>>
    /\ calls = NoCalls

NextAuto ==
    \/ AgentVerify
    \/ LoopReturn
    \/ AutoComplete
    \/ LogFinalStats

SpecAuto == InitAuto /\ [][NextAuto]_vars

----------------------------------------------------------------------------
(* The verify calls on a wide range of arguments: set-up is done, the loop  *)
(* calls verify (any flags, self-inconsistent combinations included) and    *)
(* then returns or raises.                                                  *)

\* a reasoning that mentions ok_answer in mixed case
OkAnswerReasoning == <<"O", "k", "_", "A", "n", "s", "w", "e", "r">>

WideVerifyArgs ==
    [outcome : OutcomeKind \cup {"bogus"},
     employee_links : {NONE, <<"N", "o", "n", "e">>, <<"a">>},
     project_links : {NONE},
     customer_links : {NONE, <<>>},
     made_modifications : BOOLEAN, permissions_checked : BOOLEAN,
     wiki_checked : BOOLEAN,
     reasoning : {<<>>, <<"r">>, OkAnswerReasoning}]

\* store_agent.py:207-278
AgentVerifyWide ==
    /\ pc = "loop"
    /\ \E kwargs \in WideVerifyArgs : VerifyCall(kwargs)

InitVerify ==
    /\ pc = "loop"
    /\ taskIdx = 1
    /\ exc = "none"
    /\ steps = 0
    /\ _response_provided = FALSE
    /\ _verified = FALSE
    /\ _last_verify_payload = EmptyDict
    /\ nDispatched = 0
    /\ accepted = <<>>
    /\ lastCall = NoCall
    /\ call_count = 0
    /\ start_time = PyNone
    /\ llmLog = <<>>
    /\ PlainRun
    /\ started = <<1>>
    /\ completed = <<>>
    /\ calls = NoCalls

NextVerify ==
    \/ AgentVerifyWide
    \/ LoopReturn
    \/ LoopRaise
    \/ AutoComplete
    \/ ErrorFallback
    \/ LogFinalStats

SpecVerify == InitVerify /\ [][NextVerify]_vars

----------------------------------------------------------------------------
(* Concurrent terminal calls: the set-up is done; a message of the model    *)
(* may carry two invocations of the terminal tool, which the tool node      *)
(* runs at the same time; between such steps the loop may return.           *)

NextConcurrent ==
    \/ ConcurrentBegin
    \/ ConcurrentStep
    \/ ConcurrentEnd
    \/ (calls = NoCalls /\ LoopReturn)
    \/ AutoComplete
    \/ LogFinalStats

SpecConcurrent == InitVerify /\ [][NextConcurrent]_vars

----------------------------------------------------------------------------
(* The usage accounting: the callbacks of the model invocations, which      *)
(* change only call_count, start_time and llmLog, are interleaved with the  *)
(* run.  The loop calls a tool or returns after a model invocation has      *)
(* ended; it can raise at any point.                                        *)

\* a model invocation has ended and none is under way
LlmReady == call_count >= 1 /\ start_time = PyNone

NextUsage ==
    \/ StartTask
    \/ RunAgentEnter
    \/ SetUp
    \/ LlmStart
    \/ LlmEnd
    \/ (LlmReady /\ AgentCall(Terminal))
    \/ (LlmReady /\ LoopReturn)
    \/ LoopRaise
    \/ AutoComplete
    \/ ErrorFallback
    \/ LogFinalStats
    \/ CompleteTask
    \/ SubmitSession

SpecUsage == Init /\ [][NextUsage]_vars

----------------------------------------------------------------------------
(* The driver with its options: any value of --only, with or without        *)
(* --fail-fast, any evaluation of the tasks by the platform.  The agent     *)
(* loop of a task thinks until its step budget is used up, returns or       *)
(* raises.                                                                  *)

InitDriver ==
    /\ pc = "select"
    /\ taskIdx = 1
    /\ exc = "none"
    /\ steps = 0
    /\ _response_provided = FALSE
    /\ _verified = FALSE
    /\ _last_verify_payload = EmptyDict
    /\ nDispatched = 0
    /\ accepted = <<>>
    /\ lastCall = NoCall
    /\ call_count = 0
    /\ start_time = PyNone
    /\ llmLog = <<>>
    /\ only \in OnlyValues
    /\ fail_fast \in BOOLEAN
    /\ evals \in [1..NumTasks -> EvalKinds]
    /\ tasks_to_run = <<>>
    /\ failed_tests = 0
    /\ started = <<>>
    /\ completed = <<>>
    /\ submitted = 0
    /\ calls = NoCalls

NextDriver ==
    \/ SelectTasks
    \/ StartTask
    \/ RunAgentEnter
    \/ SetUp
    \/ AgentThink
    \/ LoopReturn
    \/ LoopRaise
    \/ AutoComplete
    \/ ErrorFallback
    \/ LogFinalStats
    \/ CompleteTask
    \/ SubmitSession

SpecDriver == InitDriver /\ [][NextDriver]_vars

\* the driver is one sequential process: a step that can be taken is taken
SpecDriverFair == SpecDriver /\ WF_vars(NextDriver)

----------------------------------------------------------------------------
(* Claims *)

\* run_agent has ended (returned or raised) after its agent loop ended
RunEnded == pc \in {"returned", "raised"} /\ exc # "setup"

\* the step is an invocation of the terminal tool by the agent loop
TerminalInvoked == pc = "loop" /\ steps' = steps + 1 /\ lastCall'.tool = Terminal

\* C1: when a run of run_agent ends, however its agent loop ended, exactly
\* one Req_ProvideAgentResponse request has been dispatched for the task.
C1_ExactlyOneDispatched == RunEnded => nDispatched = 1

C3_ClosedGuardIntercepts ==
    [][(TerminalInvoked /\ _response_provided) =>
          /\ lastCall'.result = "ALREADY_COMPLETED"
          /\ ~lastCall'.dispatched
          /\ nDispatched' = nDispatched
          /\ accepted' = accepted]_vars

\* the terminal tool was invoked a second time, after an accepted response
C3_Witness ==
    /\ lastCall.tool = Terminal
    /\ lastCall.result = "ALREADY_COMPLETED"
    /\ Len(accepted) = 1
    /\ accepted[1].by = "agent"

\* C4: if _response_provided is true when the agent loop has ended, the
\* fallback (after a normal exit and after an error) dispatches nothing.
C4_ClosedGuardNoFallback ==
    [][(pc \in {"after_loop", "except"} /\ _response_provided) =>
          (nDispatched' = nDispatched /\ accepted' = accepted)]_vars

\* the error path has run with the guard closed by the agent's own response
C4_Witness ==
    /\ pc = "finally"
    /\ exc = "loop"
    /\ _response_provided
    /\ nDispatched = 1
    /\ Len(accepted) = 1

\* C5: once _response_provided is true during a run of run_agent, no step
\* of that run sets it back to false (only the entry of the next run does).
C5_GuardAbsorbing ==
    [][(_response_provided /\ pc # "run_agent") => _response_provided']_vars

\* the guard was closed, tools were called after that, and the run ended
C5_Witness ==
    /\ pc = "returned"
    /\ _response_provided
    /\ lastCall.tool = "Req_UpdateWiki"
    /\ lastCall.dispatched

\* C6: the guard goes from false to true only in a step in which the
\* external API accepted a terminal request; a failing terminal invocation
\* and every other tool call leave it false.
C6_GuardClosesOnAccept ==
    [][(~_response_provided /\ _response_provided') =>
          /\ Len(accepted') = Len(accepted) + 1
          /\ nDispatched' = nDispatched + 1]_vars

\* a terminal invocation was rejected by the external API, the guard is open
C6_Witness ==
    /\ lastCall.tool = Terminal
    /\ lastCall.dispatched
    /\ lastCall.result = "API_ERROR"
    /\ ~_response_provided
    /\ nDispatched = 1

\* C7: entering run_agent resets the run state whatever the previous task
\* left, and it is still reset when the first tool of the task can run.
C7_RunStateReset ==
    /\ [][pc = "run_agent" =>
             /\ ~_response_provided'
             /\ ~_verified'
             /\ _last_verify_payload' = EmptyDict]_vars
    /\ []((pc = "setup" \/ (pc = "loop" /\ steps = 0)) =>
             /\ ~_response_provided
             /\ ~_verified
             /\ _last_verify_payload = EmptyDict)

\* the second task is entered with the flags and the payload of the first
C7_Witness ==
    /\ pc = "run_agent"
    /\ taskIdx = 2
    /\ _response_provided
    /\ _verified
    /\ _last_verify_payload # EmptyDict

\* C8: every accepted terminal response whose outcome is error_internal,
\* denied_security or none_unsupported has no links, whoever submitted it.
C8_NoLinksForSafeOutcomes ==
    \A i \in DOMAIN accepted :
        accepted[i].outcome \in {"error_internal", "denied_security", "none_unsupported"}
            => accepted[i].links = <<>>

\* C9: a response the auto-completion synthesizes from a verify payload
\* whose outcome is error_internal, denied_security or none_unsupported has
\* an empty link list, whatever link strings the payload holds.
C9_AutoNoLinksForSafeOutcomes ==
    \A i \in DOMAIN accepted :
        (/\ accepted[i].by = "auto"
         /\ accepted[i].outcome \in {"error_internal", "denied_security", "none_unsupported"})
            => accepted[i].links = <<>>

\* denied_security was verified with two employee identifiers and
\* auto-completed
C9_Witness ==
    /\ pc = "finally"
    /\ _last_verify_payload.outcome = "denied_security"
    /\ _last_verify_payload.employee_links = <<"a", ",", "b">>
    /\ Len(accepted) = 1
    /\ accepted[1].by = "auto"
    /\ accepted[1].outcome = "denied_security"
    /\ accepted[1].links = <<>>

\* the identifiers each link string of the model stands for, written out
C10_ExpectedIds(raw) ==
    CASE raw = <<"a">> -> << <<"a">> >>
      [] raw = <<"a", ",", "b">> -> << <<"a">>, <<"b">> >>
      [] raw = <<" ", "a", " ", ",", "a">> -> << <<"a">>, <<"a">> >>
      [] raw = <<"a", ",", ",", "b">> -> << <<"a">>, <<"b">> >>
      [] raw = <<"p">> -> << <<"p">> >>
      [] raw = <<"p", ",", "q">> -> << <<"p">>, <<"q">> >>
      [] raw = <<"c">> -> << <<"c">> >>
      [] raw = <<" ", "c">> -> << <<"c">> >>
      [] OTHER -> << >>

C10_LinksOf(kind, raw) ==
    [i \in 1..Len(C10_ExpectedIds(raw)) |-> [kind |-> kind, id |-> C10_ExpectedIds(raw)[i]]]

\* the links of a payload, policy-filtered for the outcome that is submitted
C10_ExpectedLinks(payload, outcome) ==
    IF outcome \in {"error_internal", "denied_security", "none_unsupported"}
    THEN <<>>
    ELSE C10_LinksOf("employee", payload.employee_links)
             \o C10_LinksOf("project", payload.project_links)
             \o C10_LinksOf("customer", payload.customer_links)

\* the loop returned normally, verify was called and no terminal call of
\* the agent was accepted; the auto-completion has run
C10_AutoCompleted ==
    /\ pc = "finally"
    /\ exc = "none"
    /\ _verified
    /\ \A i \in DOMAIN accepted : accepted[i].by # "agent"

\* C10 as claimed: the auto-completion submits one terminal response whose
\* outcome is the outcome of the last verify call, whose message is its
\* reasoning and whose links are the identifiers of its link strings
\* (policy-filtered).
C10_AutoReproducesVerify ==
    C10_AutoCompleted =>
        /\ nDispatched = 1
        /\ accepted # <<>> =>
              /\ accepted[1].outcome = _last_verify_payload.outcome
              /\ accepted[1].message = _last_verify_payload.reasoning
              /\ accepted[1].links =
                    C10_ExpectedLinks(_last_verify_payload, _last_verify_payload.outcome)

\* C10 as amended: nothing is submitted when the verified outcome is a
\* non-empty string outside the enumeration; otherwise one terminal request
\* is dispatched, with the verified outcome (error_internal when it is the
\* empty string), the verified reasoning as message (the fixed
\* auto-submission text when it is empty) and the policy-filtered links.
C10_AutoReproducesVerifyOrDefaults ==
    C10_AutoCompleted =>
        LET p == _last_verify_payload
            o == IF p.outcome = "" THEN "error_internal" ELSE p.outcome
            m == IF p.reasoning = <<>> THEN AutoMessage ELSE p.reasoning
        IN  /\ nDispatched = IF o \in OutcomeKind THEN 1 ELSE 0
            /\ Len(accepted) <= nDispatched
            /\ accepted # <<>> =>
                  /\ accepted[1].by = "auto"
                  /\ accepted[1].outcome = o
                  /\ accepted[1].message = m
                  /\ accepted[1].links = C10_ExpectedLinks(p, o)

\* verify(ok_answer, employee a, no project, no customer) was auto-completed
\* as ok_answer with the single link (employee, a)
C10_Witness ==
    /\ pc = "finally"
    /\ _last_verify_payload = VerifyPayload("ok_answer", <<"a">>, NONE, NONE, <<"r">>)
    /\ accepted = <<[by |-> "auto", outcome |-> "ok_answer", message |-> <<"r">>,
                     links |-> <<[kind |-> "employee", id |-> <<"a">>]>>]>>

\* the agent made at most one tool call in this task and it was not an
\* invocation of the terminal tool
NoTerminalCall == steps <= 1 /\ lastCall.tool # Terminal

\* C11: if the agent loop returns normally without any verify call and
\* without any terminal tool call, the fallback submits a terminal response
\* with outcome error_internal and no links.
C11_NoVerifyFallbackErrorInternal ==
    (pc = "finally" /\ exc = "none" /\ ~_verified /\ NoTerminalCall) =>
        /\ nDispatched = 1
        /\ accepted # <<>> =>
              (accepted[1].outcome = "error_internal" /\ accepted[1].links = <<>>)

\* the generic response of the error path, written out
C12_GenericError ==
    [by |-> "error", outcome |-> "error_internal", message |-> ErrorMessage, links |-> <<>>]

\* the loop raised after a verify call, no terminal call of the agent was
\* accepted, and the error path has run and had its response accepted
C12_ErrorAfterVerify ==
    /\ pc = "finally"
    /\ exc = "loop"
    /\ _verified
    /\ accepted # <<>>
    /\ accepted[1].by # "agent"

C13_ErrorInternalThenReraise ==
    /\ [][(pc = "except" /\ accepted = <<>>) =>
             /\ nDispatched' = nDispatched + 1
             /\ accepted' \in {<<>>, <<C12_GenericError>>}
             /\ pc' = "finally"
             /\ exc' = "loop"]_vars
    /\ [][(pc' = "raised" /\ exc' # "setup") => (pc = "finally" /\ exc' = "loop")]_vars

\* the loop raised before any tool call, the error_internal dispatch
\* failed, and run_agent raised the loop's error
C13_Witness ==
    /\ pc = "raised"
    /\ exc = "loop"
    /\ steps = 0
    /\ nDispatched = 1
    /\ accepted = <<>>

\* C14: a failure of the fallback submission does not propagate: after a
\* normal loop exit run_agent goes on to the finally block and returns
\* normally, and in the error path it goes on to the finally block and
\* raises the loop's error.
C14_FallbackFailureSwallowed ==
    /\ [][(pc \in {"after_loop", "except"}) =>
             /\ pc' = "finally"
             /\ exc' = (IF pc = "after_loop" THEN "none" ELSE "loop")]_vars
    /\ [][(pc = "finally") =>
             /\ exc' = exc
             /\ pc' = (IF exc = "none" THEN "returned" ELSE "raised")]_vars

\* verify was the only tool call, the auto-completion was dispatched and
\* failed, and run_agent returned normally
C14_Witness ==
    /\ pc = "returned"
    /\ exc = "none"
    /\ _verified
    /\ NoTerminalCall
    /\ nDispatched = 1
    /\ accepted = <<>>

\* C15: whenever the fallback has had a terminal response accepted (the
\* verified one after a normal exit, or the generic error_internal one),
\* _response_provided is true when run_agent ends.
C15_FallbackClosesGuard ==
    (/\ pc \in {"returned", "raised"}
     /\ \E i \in DOMAIN accepted : accepted[i].by \in {"auto", "error"})
        => _response_provided

\* C16: when run_agent ends after a completed set-up, at least one usage
\* record has been passed to log_llm for the task, and if the callback
\* counted no model invocation there is exactly one record, whose token
\* counts are all zero.
C16_UsageRecordPerTask ==
    RunEnded =>
        /\ Len(llmLog) >= 1
        /\ call_count = 0 =>
              /\ Len(llmLog) = 1
              /\ llmLog[1].prompt_tokens = 0
              /\ llmLog[1].completion_tokens = 0
              /\ llmLog[1].cached_prompt_tokens = 0

\* C17: control leaves run_agent only from the finally block (after
\* log_final_stats), and the finally block is reached only through the
\* fallback check of the normal path or of the error path.
C17_TeardownOnEveryExit ==
    /\ [][(pc' \in {"returned", "raised"}) => (pc = "finally")]_vars
    /\ [][(pc' = "finally") => (pc \in {"after_loop", "except"})]_vars

\* the step passed a record to log_llm that was not accepted, or on_llm_end
\* counted an invocation and failed before it had a record to pass
C18_LoggingFailed ==
    \/ /\ Len(llmLog') = Len(llmLog) + 1
       /\ ~llmLog'[Len(llmLog')].ok
    \/ /\ call_count' = call_count + 1
       /\ llmLog' = llmLog

\* C18: a step in which the logging of a usage record failed raises nothing
\* (the agent loop stays where it is, run_agent leaves the finally block the
\* way the pending error says) and changes neither the run state nor what
\* the external API received as terminal responses.
C18_LoggingFailureContained ==
    [][C18_LoggingFailed =>
          /\ exc' = exc
          /\ pc' = (IF pc = "finally"
                    THEN (IF exc = "none" THEN "returned" ELSE "raised")
                    ELSE pc)
          /\ UNCHANGED <<runState, external>>]_vars

\* a run returned normally with the guard closed by the agent's accepted
\* response, although a usage record of the task was not accepted
C18_Witness ==
    /\ pc = "returned"
    /\ _response_provided
    /\ Len(accepted) = 1
    /\ \E i \in DOMAIN llmLog : ~llmLog[i].ok

\* C19: every invocation of an ERC3 tool by the agent loop leaves the loop
\* running with no exception pending and hands it a result string, whether
\* the request failed validation, was rejected by the API, or failed
\* otherwise.
C19_NoExceptionEscapesRun ==
    [][(pc = "loop" /\ steps' = steps + 1 /\ lastCall'.tool \in ERC3Tools) =>
          /\ pc' = "loop"
          /\ exc' = exc
          /\ lastCall'.result \in
                {"ALREADY_COMPLETED", "TASK_COMPLETED", "TXT", "API_ERROR", "ERROR"}
          /\ lastCall'.error.type # "none" => lastCall'.result \in {"API_ERROR", "ERROR"}]_vars

\* the loop's first terminal call was rejected by the API, and the loop went
\* on to a search whose arguments failed validation and is still running
C19_Witness ==
    /\ pc = "loop"
    /\ steps = 2
    /\ nDispatched = 1
    /\ accepted = <<>>
    /\ lastCall.tool = "Req_SearchEmployees"
    /\ lastCall.error = ValidationError

\* the text s begins with the text p
C20_HasPrefix(s, p) == Len(s) >= Len(p) /\ SubSeq(s, 1, Len(p)) = p

\* C20: the string of a failed tool invocation is "API Error: " followed by
\* the exception's detail when the API rejected the request, and "Error: "
\* followed by the exception's message for every other failure; neither
\* kind of failure carries the other's prefix.
C20_ErrorStringByKind ==
    /\ lastCall.error.type = "ApiException" =>
          /\ lastCall.result = "API_ERROR"
          /\ lastCall.text = ApiErrorPrefix \o lastCall.error.detail
          /\ ~C20_HasPrefix(lastCall.text, ErrorPrefix)
    /\ lastCall.error.type \in {"ValidationError", "Exception"} =>
          /\ lastCall.result = "ERROR"
          /\ lastCall.text = ErrorPrefix \o lastCall.error.message
          /\ ~C20_HasPrefix(lastCall.text, ApiErrorPrefix)

\* the API rejected a search request
C20_Witness ==
    /\ lastCall.tool = "Req_SearchEmployees"
    /\ lastCall.dispatched
    /\ lastCall.error = ApiError
    /\ C20_HasPrefix(lastCall.text, ApiErrorPrefix)

\* C21: a tool invocation that carries a page argument is rejected only if
\* its other arguments are invalid, and the request that is dispatched
\* carries 5 when the given page is greater than 5 and the given page (a
\* number up to 5, or None) otherwise; without a page argument the request
\* has none.
C21_PageClampedTo5 ==
    (lastCall.tool \in ERC3Tools \ {Terminal}) =>
        IF "page" \in DOMAIN lastCall.given
        THEN /\ lastCall.dispatched <=> lastCall.given.valid
             /\ lastCall.dispatched =>
                   lastCall.sent.page =
                      (IF lastCall.given.page # PyNone /\ lastCall.given.page[1] > 5
                       THEN <<5>>
                       ELSE lastCall.given.page)
        ELSE lastCall.dispatched => "page" \notin DOMAIN lastCall.sent

\* a search with page 6 was dispatched with page 5
C21_Witness ==
    /\ lastCall.tool = "Req_SearchEmployees"
    /\ "page" \in DOMAIN lastCall.given
    /\ lastCall.given.page = <<6>>
    /\ lastCall.dispatched
    /\ lastCall.sent.page = <<5>>

\* C22: every verify call returns to the running loop with no exception
\* pending and leaves _verified true and _last_verify_payload holding
\* exactly the outcome, the three link strings and the reasoning it was
\* called with.
C22_VerifyRecordsItsArguments ==
    [][(pc = "loop" /\ steps' = steps + 1 /\ lastCall'.tool = "verify") =>
          /\ pc' = "loop"
          /\ exc' = exc
          /\ _verified'
          /\ _last_verify_payload' =
                [outcome |-> lastCall'.given.outcome,
                 employee_links |-> lastCall'.given.employee_links,
                 project_links |-> lastCall'.given.project_links,
                 customer_links |-> lastCall'.given.customer_links,
                 reasoning |-> lastCall'.given.reasoning]]_vars

\* a self-inconsistent verify call (denied_security with links, and
\* modifications without a permission check) returned with warnings and
\* was recorded
C22_Witness ==
    /\ pc = "loop"
    /\ lastCall.tool = "verify"
    /\ lastCall.given.outcome = "denied_security"
    /\ lastCall.given.employee_links = <<"a">>
    /\ lastCall.given.made_modifications
    /\ ~lastCall.given.permissions_checked
    /\ Len(lastCall.text) = 4
    /\ _verified
    /\ _last_verify_payload.outcome = "denied_security"
    /\ _last_verify_payload.employee_links = <<"a">>

\* C23: while the guard is open, an invocation of the terminal tool whose
\* request passes validation is not intercepted but dispatched to the
\* external API, in every state of the verification: verify not called,
\* called with or without warnings, payload matching the response or not.
C23_VerificationNeverBlocks ==
    [][(/\ pc = "loop"
        /\ steps' = steps + 1
        /\ lastCall'.tool = Terminal
        /\ ~_response_provided) =>
          /\ lastCall'.result # "ALREADY_COMPLETED"
          /\ lastCall'.error # ValidationError =>
                /\ lastCall'.dispatched
                /\ nDispatched' = nDispatched + 1]_vars

\* verify recorded denied_security with an employee link (a combination it
\* warns about), and the terminal call that followed was dispatched and
\* accepted with another outcome and with links
C23_Witness ==
    /\ _verified
    /\ _last_verify_payload.outcome = "denied_security"
    /\ _last_verify_payload.employee_links = <<"a">>
    /\ lastCall.tool = Terminal
    /\ lastCall.dispatched
    /\ Len(accepted) = 1
    /\ accepted[1].by = "agent"
    /\ accepted[1].outcome = "ok_answer"
    /\ accepted[1].links # <<>>

\* the position is inside run_agent, after the reset of the run state
C28_InTask == pc \in {"loop", "after_loop", "except", "finally"}

\* C28: once a verify call has recorded a payload in a task, no later step
\* of that task changes _last_verify_payload.
C28_PayloadImmutable ==
    [][(_verified /\ C28_InTask) =>
          _last_verify_payload' = _last_verify_payload]_vars

\* C28 (amended): within a task, a recorded payload is changed by nothing
\* but a later verify call, and every verify call that follows a recorded
\* payload leaves the payload of its own arguments: tool calls, think, plan
\* and the fallback leave it alone, and the fallback consumes the payload
\* of the latest verify call.
C28_PayloadOfLatestVerify ==
    [][(_verified /\ C28_InTask) =>
          IF pc = "loop" /\ steps' = steps + 1 /\ lastCall'.tool = "verify"
          THEN /\ _last_verify_payload'.outcome = lastCall'.given.outcome
               /\ _last_verify_payload'.employee_links = lastCall'.given.employee_links
               /\ _last_verify_payload'.project_links = lastCall'.given.project_links
               /\ _last_verify_payload'.customer_links = lastCall'.given.customer_links
               /\ _last_verify_payload'.reasoning = lastCall'.given.reasoning
          ELSE _last_verify_payload' = _last_verify_payload]_vars

\* verify recorded ok_answer with links, a search followed, the loop
\* returned and the auto-completion submitted the recorded outcome
C28_Witness ==
    /\ pc = "returned"
    /\ steps = 2
    /\ _verified
    /\ lastCall.tool = "Req_SearchEmployees"
    /\ _last_verify_payload.outcome = "ok_answer"
    /\ Len(accepted) = 1
    /\ accepted[1].by = "auto"
    /\ accepted[1].outcome = "ok_answer"
    /\ accepted[1].links # <<>>

\* C29: think, plan and every ERC3 tool other than the terminal one leave
\* the three run-state variables unchanged; the terminal tool leaves
\* _verified and _last_verify_payload unchanged; verify leaves
\* _response_provided unchanged.
C29_RunStateFrame ==
    [][(pc = "loop" /\ steps' = steps + 1) =>
          /\ lastCall'.tool \in {"think", "plan"} \cup (ERC3Tools \ {Terminal}) =>
                runState' = runState
          /\ lastCall'.tool = Terminal =>
                /\ _verified' = _verified
                /\ _last_verify_payload' = _last_verify_payload
          /\ lastCall'.tool = "verify" =>
                _response_provided' = _response_provided]_vars

\* after a verify call, with the guard open, a wiki update was accepted by
\* the API and the loop goes on
C29_Witness ==
    /\ pc = "loop"
    /\ steps = 2
    /\ _verified
    /\ ~_response_provided
    /\ lastCall.tool = "Req_UpdateWiki"
    /\ lastCall.result = "TXT"

\* the link string s says that there are no links
C30_IsNone(s) == s \in {<<"n", "o", "n", "e">>, <<"N", "o", "n", "e">>}

\* some link string of the call is not 'none'
C30_SomeLink(k) ==
    \/ ~C30_IsNone(k.employee_links)
    \/ ~C30_IsNone(k.project_links)
    \/ ~C30_IsNone(k.customer_links)

\* the declared values are one of the risky combinations
C30_Risky(k) ==
    \/ k.made_modifications /\ ~k.permissions_checked
    \/ k.outcome = "denied_security" /\ C30_SomeLink(k)
    \/ k.outcome \in {"error_internal", "none_unsupported"} /\ C30_SomeLink(k)
    \/ k.outcome = "none_clarification_needed" /\ k.reasoning = OkAnswerReasoning

\* the returned text has the warnings header followed by a warning line
C30_Warned(text) == Len(text) >= 3 /\ text[1] = "WARNINGS:"

\* C30: the text verify returns carries a warning exactly when the declared
\* values are one of the four risky combinations.
C30_WarningIffRisky ==
    lastCall.tool = "verify" =>
        /\ C30_Warned(lastCall.text) <=> C30_Risky(lastCall.given)
        /\ ~C30_Warned(lastCall.text) => lastCall.text = <<"Verification recorded.">>

\* none_clarification_needed with a reasoning that mentions ok_answer, and
\* nothing else risky, was answered with one warning
C30_Witness ==
    /\ lastCall.tool = "verify"
    /\ lastCall.given.outcome = "none_clarification_needed"
    /\ lastCall.given.reasoning = OkAnswerReasoning
    /\ ~lastCall.given.made_modifications
    /\ Len(lastCall.text) = 3
    /\ lastCall.text[1] = "WARNINGS:"

\* the agent loop has used up its step budget and raised, and no terminal
\* response was accepted in the task
C24_BudgetExceeded ==
    /\ pc = "except"
    /\ exc = "loop"
    /\ steps = MaxSteps
    /\ ~_response_provided
    /\ accepted = <<>>

\* C24: the agent loop never takes more steps than its budget and run_agent
\* always terminates; when the budget is exceeded without an accepted
\* terminal response, the fallback dispatches one terminal request
\* (error_internal if the API accepts it), and the process goes on:
\* complete_task is called for that task, and then the next task is started
\* or, when the loop is over, the session ends.
C24_BoundedLoopNeverCrashes ==
    /\ [](steps <= MaxSteps)
    /\ (pc = "run_agent") ~> (pc \in {"returned", "raised"})
    /\ [][C24_BudgetExceeded =>
             /\ nDispatched' = nDispatched + 1
             /\ accepted' \in {<<>>, <<ErrorRequest>>}
             /\ pc' = "finally"]_vars
    /\ \A n \in 0..NumTasks :
          (C24_BudgetExceeded /\ Len(started) = n + 1 /\ Len(completed) = n)
             ~> /\ Len(completed) = n + 1
                /\ completed[n + 1] = started[n + 1]
                /\ Len(started) = n + 2 \/ pc = "done"

\* the first task used up its budget and raised, the fallback dispatched its
\* request, run_agent re-raised, and the driver has completed the task and
\* stands before the start of the second one
C24_Witness ==
    /\ pc = "driver"
    /\ MoreTasks
    /\ exc = "loop"
    /\ steps = MaxSteps
    /\ nDispatched = 1
    /\ started = <<1>>
    /\ completed = <<1>>

\* a task has been started and complete_task was not yet called for it
C25_TaskOpen ==
    pc \in {"run_agent", "setup", "loop", "after_loop", "except", "finally",
            "returned", "raised"}

\* C25: tasks run one after the other: start_task, then run_agent, then
\* complete_task.  The completed tasks are the started ones in the same
\* order, each once; one task at most is started and not completed, and
\* exactly while run_agent is being run for it; complete_task is called
\* only when run_agent has returned or raised, and start_task only when
\* every started task has been completed.
C25_StrictlySequential ==
    /\ [](/\ Len(started) = Len(completed) + (IF C25_TaskOpen THEN 1 ELSE 0)
          /\ \A i \in 1..Len(completed) : completed[i] = started[i]
          /\ \A i, j \in 1..Len(started) : i < j => started[i] < started[j])
    /\ [][completed' # completed =>
             /\ pc \in {"returned", "raised"}
             /\ completed' = Append(completed, started[Len(started)])]_vars
    /\ [][started' # started =>
             /\ Len(completed) = Len(started)
             /\ pc' = "run_agent"]_vars

\* run_agent raised in the set-up of the second task and both tasks were
\* completed
C25_Witness ==
    /\ pc = "driver"
    /\ exc = "setup"
    /\ started = <<1, 2>>
    /\ completed = <<1, 2>>

\* complete_task has returned a score that is not greater than 0 for a task
C26_SomeTaskFailed == \E i \in 1..Len(completed) : evals[completed[i]] = "fail"

\* C26: submit_session is called at most once, and only at the end, when
\* every task of the session has been started and completed; it is never
\* called when --only was given, nor when --fail-fast was given and a task
\* failed; a run without --only and without --fail-fast that reaches its
\* end has called it, whatever the scores were.
C26_SubmitOnceAfterFullRun ==
    /\ submitted <= 1
    /\ submitted = 1 => /\ pc = "done"
                        /\ started = SessionTasks
                        /\ completed = SessionTasks
    /\ only # PyNone => submitted = 0
    /\ (fail_fast /\ C26_SomeTaskFailed) => submitted = 0
    /\ (pc = "done" /\ only = PyNone /\ ~fail_fast) => submitted = 1

\* a run without options in which every task failed has submitted the
\* session
C26_Witness ==
    /\ pc = "done"
    /\ only = PyNone
    /\ ~fail_fast
    /\ failed_tests = NumTasks
    /\ submitted = 1

\* C27: with --fail-fast, a completed task whose score is not greater than 0
\* is the last task that was started; with --only N and N within
\* 1..number of tasks nothing but the N-th task of the session is started,
\* and it has been started when the run ends; with N outside that range
\* the process exits and no task is ever started.
C27_OptionsLimitStartedTasks ==
    /\ fail_fast =>
          \A i \in 1..Len(completed) :
              evals[completed[i]] = "fail" => Len(started) = i
    /\ only # PyNone =>
          IF only[1] \in 1..NumTasks
          THEN /\ started \in {<<>>, <<SessionTasks[only[1]]>>}
               /\ pc = "done" => started = <<SessionTasks[only[1]]>>
               /\ pc # "exit"
          ELSE /\ started = <<>>
               /\ pc \in {"select", "exit"}

\* with --only 2 the run has ended and the second task, and no other, was
\* started and completed
C27_Witness ==
    /\ pc = "done"
    /\ only = <<2>>
    /\ started = <<2>>
    /\ completed = <<2>>
    /\ submitted = 0

\* the step is an on_llm_end that closes a started model invocation
C31_InvocationEnds == pc = "loop" /\ start_time # PyNone /\ start_time' = PyNone

\* the synthetic record of log_final_stats is among the task's records
C31_HasSynthetic == \E i \in DOMAIN llmLog : llmLog[i].completion = "[no_llm_calls]"

\* every step that ends a started invocation passes exactly one record
C31_RecordPerInvocation ==
    [][C31_InvocationEnds => /\ Len(llmLog') = Len(llmLog) + 1
                             /\ SubSeq(llmLog', 1, Len(llmLog)) = llmLog]_vars

\* when run_agent has ended, the synthetic record was emitted exactly if no
\* invocation was counted, and then it is the only record
C31_SyntheticIffNoInvocation ==
    RunEnded => /\ C31_HasSynthetic <=> call_count = 0
                /\ C31_HasSynthetic => Len(llmLog) = 1

\* a step of the loop without a started invocation passes no record
C31_NoRecordWithoutStart ==
    [][(pc = "loop" /\ start_time = PyNone) => llmLog' = llmLog]_vars

\* C31: exactly one usage record is passed to log_llm for each model
\* invocation that started and ended; the synthetic zero-usage record is
\* emitted if and only if no invocation was observed in the task, never
\* next to real records; an on_llm_end without a preceding on_llm_start
\* passes no record.
C31_ExactlyOneRecordPerInvocation ==
    /\ C31_RecordPerInvocation
    /\ [](C31_SyntheticIffNoInvocation)
    /\ C31_NoRecordWithoutStart

\* the texts that stand for a response without visible text
C32_Substitutes ==
    {"json(msg.tool_calls)", "json(ak.tool_calls)", "json(ak.function_call)",
     "[empty_response]"}

\* C32: every usage record passed to log_llm has a non-empty completion
\* text: the visible text of the response if there is one, else the
\* serialized tool calls or the placeholder '[empty_response]'; the record
\* log_final_stats adds for a task without model invocations carries
\* '[no_llm_calls]'.
C32_CompletionNeverEmpty ==
    /\ \A i \in DOMAIN llmLog :
          /\ llmLog[i].completion # ""
          /\ llmLog[i].completion \in C32_Substitutes \cup {"text", "[no_llm_calls]"}
    /\ \A r \in Responses :
          /\ r.content # "" => CompletionText(r) = r.content
          /\ r.content = "" => CompletionText(r) \in C32_Substitutes
          /\ (r.content = "" /\ ~r.tool_calls /\ r.additional_kwargs = "none")
                => CompletionText(r) = "[empty_response]"
    /\ (RunEnded /\ call_count = 0) =>
          llmLog = <<llmLog[1]>> /\ llmLog[1].completion = "[no_llm_calls]"

\* a run ended whose records carry the placeholder of a response without
\* text and tool calls, and the serialized tool calls of a pure tool call
C32_Witness ==
    /\ RunEnded
    /\ Len(llmLog) = 2
    /\ llmLog[1].completion = "[empty_response]"
    /\ llmLog[2].completion = "json(msg.tool_calls)"

\* the step sends something of the task to the external API: a terminal
\* request or a usage record
C33_Sends == nDispatched' > nDispatched \/ Len(llmLog') > Len(llmLog)

\* C33: a terminal submission outside the agent loop is made by the
\* fallback, after the loop has ended and in the step that leads to the
\* finally block; log_final_stats comes after it and is followed by no
\* submission; usage records are passed only by the callbacks during the
\* loop and by log_final_stats; complete_task is called when run_agent has
\* ended, and from then until the next task is started nothing of the task
\* is sent.
C33_ClosingStepsInOrder ==
    /\ [][(nDispatched' > nDispatched /\ pc # "loop") =>
             /\ pc \in {"after_loop", "except"}
             /\ pc' = "finally"]_vars
    /\ [][(pc = "finally") =>
             /\ pc' \in {"returned", "raised"}
             /\ UNCHANGED <<nDispatched, accepted>>]_vars
    /\ [][(Len(llmLog') > Len(llmLog)) => pc \in {"loop", "finally"}]_vars
    /\ [][(completed' # completed) =>
             /\ pc \in {"returned", "raised"}
             /\ UNCHANGED <<nDispatched, accepted, llmLog>>]_vars
    /\ [][(pc \in {"returned", "raised", "driver", "after_tasks", "done"}) =>
             ~C33_Sends]_vars

\* the loop of the first task raised after a model invocation; the
\* error_internal submission was accepted and a usage record was passed, and
\* complete_task has been called for the task
C33_Witness ==
    /\ pc = "driver"
    /\ completed = <<1>>
    /\ exc = "loop"
    /\ accepted = <<ErrorRequest>>
    /\ Len(llmLog) = 1
    /\ call_count = 1

\* C34: the links of a response the auto-completion has submitted form an
\* ordered set: no (kind, id) pair occurs twice in them.
C34_AutoLinksNoDuplicates ==
    \A k \in DOMAIN accepted :
        accepted[k].by = "auto" =>
            \A i, j \in DOMAIN accepted[k].links :
                i # j => accepted[k].links[i] # accepted[k].links[j]

\* the link string is 'none' in some letter case
C35_IsNone(raw) ==
    /\ Len(raw) = 4
    /\ raw[1] \in {"n", "N"}
    /\ raw[2] \in {"o", "O"}
    /\ raw[3] \in {"n", "N"}
    /\ raw[4] \in {"e", "E"}

\* the k-th smallest element of a set of numbers
C35_Nth(S, k) == CHOOSE c \in S : Cardinality({d \in S : d < c}) = k - 1

\* the pieces of raw between its commas, in order
C35_Pieces(raw) ==
    LET cuts == {0, Len(raw) + 1} \cup {i \in DOMAIN raw : raw[i] = ","}
    IN  [k \in 1..(Cardinality(cuts) - 1) |->
            SubSeq(raw, C35_Nth(cuts, k) + 1, C35_Nth(cuts, k + 1) - 1)]

\* s without the blanks around it
C35_Trim(s) ==
    LET inked == {i \in DOMAIN s : s[i] # " "}
    IN  IF inked = {} THEN <<>>
        ELSE SubSeq(s, C35_Nth(inked, 1), C35_Nth(inked, Cardinality(inked)))

\* the identifiers a link string contributes
C35_Ids(raw) ==
    IF raw = <<>> \/ C35_IsNone(raw) THEN <<>>
    ELSE LET pieces == C35_Pieces(raw)
             trimmed == [k \in DOMAIN pieces |-> C35_Trim(pieces[k])]
             NonEmpty(item) == item # <<>>
         IN  SelectSeq(trimmed, NonEmpty)

\* the identifiers of the links of one kind, in the order of the list
C35_IdsOfKind(links, kind) ==
    LET OfKind(l) == l.kind = kind
        sel == SelectSeq(links, OfKind)
    IN  [i \in DOMAIN sel |-> sel[i].id]

C35_KindRank(kind) ==
    CASE kind = "employee" -> 1 [] kind = "project" -> 2 [] kind = "customer" -> 3

\* C35: for an outcome that allows links, the links of the auto-completion
\* are the employee links, then the project links, then the customer links;
\* the identifiers of a kind are the comma-separated items of its link
\* string in their order, each trimmed, empty items dropped; a link string
\* that is 'none' in any letter case, or empty, contributes no link.
C35_AutoLinksDerivation ==
    (/\ C10_AutoCompleted
     /\ accepted # <<>>
     /\ accepted[1].outcome \notin {"error_internal", "denied_security", "none_unsupported"})
        => LET links == accepted[1].links
               p == _last_verify_payload
           IN  /\ \A i, j \in DOMAIN links :
                     i < j => C35_KindRank(links[i].kind) <= C35_KindRank(links[j].kind)
               /\ C35_IdsOfKind(links, "employee") = C35_Ids(p.employee_links)
               /\ C35_IdsOfKind(links, "project") = C35_Ids(p.project_links)
               /\ C35_IdsOfKind(links, "customer") = C35_Ids(p.customer_links)

\* employee_links 'a,,b', project_links 'p,q' and customer_links ' c' were
\* auto-completed as the five links a, b, p, q, c
C35_Witness ==
    /\ pc = "finally"
    /\ _last_verify_payload.employee_links = <<"a", ",", ",", "b">>
    /\ _last_verify_payload.project_links = <<"p", ",", "q">>
    /\ _last_verify_payload.customer_links = <<" ", "c">>
    /\ Len(accepted) = 1
    /\ accepted[1].by = "auto"
    /\ Len(accepted[1].links) = 5
    /\ accepted[1].links[2] = [kind |-> "employee", id |-> <<"b">>]
    /\ accepted[1].links[5] = [kind |-> "customer", id |-> <<"c">>]

\* the step is a verify call of the agent loop
C36_VerifyStep == pc = "loop" /\ steps' = steps + 1 /\ lastCall'.tool = "verify"

\* C36: in every reachable state _verified is true exactly if
\* _last_verify_payload is non-empty, so the fallback's test is the test of
\* _verified alone; and within a task _verified says that verify was called:
\* it is false after the reset, every verify call sets it, and no other step
\* of the task changes it.
C36_VerifiedIffPayload ==
    /\ [](/\ _verified <=> _last_verify_payload # EmptyDict
          /\ HasVerifyPayload <=> _verified
          /\ pc = "setup" => ~_verified)
    /\ [][C36_VerifyStep => _verified']_vars
    /\ [][(_verified' # _verified) => (C36_VerifyStep \/ pc = "run_agent")]_vars

\* the loop of the second task has returned after a verify call, with the
\* guard open: the fallback is about to test the payload
C36_Witness ==
    /\ pc = "after_loop"
    /\ taskIdx = 2
    /\ _verified
    /\ _last_verify_payload # EmptyDict
    /\ ~_response_provided

\* the step is an invocation of an ERC3 tool other than the terminal tool
C37_OtherToolInvoked ==
    /\ pc = "loop"
    /\ steps' = steps + 1
    /\ lastCall'.tool \in ERC3Tools \ {Terminal}

C38_BothReturned == \A t \in Threads : calls[t].at = "done"

\* no concurrent invocation has failed: every request was built and every
\* dispatch was accepted by the API
C38_NoneFailed == \A t \in Threads : calls[t].ret.error = NoError

\* C38: when two invocations of the terminal tool of the same task are
\* executed concurrently and none of them fails, at most one of them is
\* dispatched to the external API and the other one returns the 'already
\* completed' acknowledgement.
C38_ConcurrentCallsDispatchOnce ==
    (C38_BothReturned /\ C38_NoneFailed) =>
        /\ Cardinality({t \in Threads : calls[t].ret.dispatched}) <= 1
        /\ \A t \in Threads :
              calls[t].ret.dispatched =>
                  \A u \in Threads \ {t} : calls[u].ret.result = "ALREADY_COMPLETED"

====
